---- MODULE Spec2Model ----
(***************************************************************************)
(* aioclock: the three-phase lifecycle of AioClock.serve() (app.py), the   *)
(* fire-loop of a Task over its trigger (triggers.py), and the asyncio     *)
(* gather / cancellation semantics serve() relies on.                      *)
(***************************************************************************)
EXTENDS Integers, Sequences, FiniteSets, TLC

\* ---------------------------------------------------------------- bounds
\* number of tasks registered before serve()
MaxTasks == 4
\* number of registered tasks that run in the same phase
MaxPerPhase == 2
\* invocations one fire-loop may begin; also the max_loop_count of the
\* loop-limited Every that is registered
MaxFires == 2
\* largest value given to AioClock(limiter=...)
MaxLimiter == 1
\* number of tasks registered on an AioClock that has a limiter
MaxLimitedTasks == 2

\* Python's None, for max_loop_count, a waiting time and the limiter
None == -1

\* ------------------------------------------------------------- triggers
\* triggers.py: one record per trigger object; current_loop_count is the
\* private _current_loop_count of LoopController (0 after construction).
Forever ==
    [type_ |-> "FOREVER", max_loop_count |-> None, current_loop_count |-> 0,
     first_run_strategy |-> "wait", to_seconds |-> 0]

Once ==
    [type_ |-> "ONCE", max_loop_count |-> 1, current_loop_count |-> 0,
     first_run_strategy |-> "wait", to_seconds |-> 0]

OnStartUp ==
    [type_ |-> "ON_START_UP", max_loop_count |-> 1, current_loop_count |-> 0,
     first_run_strategy |-> "wait", to_seconds |-> 0]

OnShutDown ==
    [type_ |-> "ON_SHUT_DOWN", max_loop_count |-> 1, current_loop_count |-> 0,
     first_run_strategy |-> "wait", to_seconds |-> 0]

Every(max, strategy, secs) ==
    [type_ |-> "EVERY", max_loop_count |-> max, current_loop_count |-> 0,
     first_run_strategy |-> strategy, to_seconds |-> secs]

LoopControlled == {"ONCE", "ON_START_UP", "ON_SHUT_DOWN", "EVERY", "AT", "foo"}

\* LoopController._increment_loop_counter
_increment_loop_counter(tr) ==
    [tr EXCEPT !.current_loop_count = @ + 1]

\* (variant) a loop that stops one fire short of max_loop_count
should_trigger_OneShort(tr) ==
    IF tr.type_ \notin LoopControlled THEN TRUE
    ELSE IF tr.max_loop_count = None THEN TRUE
    ELSE IF tr.current_loop_count + 1 < tr.max_loop_count THEN TRUE
    ELSE FALSE

\* (variant) a loop counter compared with <= instead of <
should_trigger_AtMost(tr) ==
    IF tr.type_ \notin LoopControlled THEN TRUE
    ELSE IF tr.max_loop_count = None THEN TRUE
    ELSE IF tr.current_loop_count <= tr.max_loop_count THEN TRUE
    ELSE FALSE

\* BaseTrigger.should_trigger, overridden by LoopController.should_trigger
should_trigger(tr) ==
    IF tr.type_ \notin LoopControlled THEN TRUE
    ELSE IF tr.max_loop_count = None THEN TRUE
    ELSE IF tr.current_loop_count < tr.max_loop_count THEN TRUE
    ELSE FALSE

\* (variant) Every that ignores first_run_strategy
get_waiting_time_till_next_trigger_AlwaysWait(tr) ==
    CASE tr.type_ = "FOREVER" -> 0
      [] tr.type_ \in {"ONCE", "ON_START_UP", "ON_SHUT_DOWN"} ->
            IF tr.current_loop_count = 0 THEN 0 ELSE None
      [] tr.type_ = "EVERY" ->
            IF should_trigger(tr) THEN tr.to_seconds ELSE None

\* get_waiting_time_till_next_trigger of Forever, Once, OnStartUp,
\* OnShutDown and Every: seconds to wait, or None
get_waiting_time_till_next_trigger(tr) ==
    CASE tr.type_ = "FOREVER" -> 0
      [] tr.type_ \in {"ONCE", "ON_START_UP", "ON_SHUT_DOWN"} ->
            IF tr.current_loop_count = 0 THEN 0 ELSE None
      [] tr.type_ = "EVERY" ->
            IF tr.current_loop_count = 0 /\ tr.first_run_strategy = "immediate"
            THEN 0
            ELSE IF should_trigger(tr) THEN tr.to_seconds ELSE None

\* (variant) trigger_next that keeps a count in Forever too
trigger_next_CountsForever(tr) ==
    [trigger |-> _increment_loop_counter(tr), sleep |-> None]

\* (variant) trigger_next that forgets to count the fire
trigger_next_NoIncrement(tr) ==
    [trigger |-> tr, sleep |-> None]

\* trigger_next of the same variants: the trigger afterwards and the
\* asyncio.sleep it awaits inside (None: it returns without sleeping)
trigger_next(tr) ==
    CASE tr.type_ = "FOREVER" -> [trigger |-> tr, sleep |-> None]
      [] tr.type_ \in {"ONCE", "ON_START_UP", "ON_SHUT_DOWN"} ->
            [trigger |-> _increment_loop_counter(tr), sleep |-> None]
      [] tr.type_ = "EVERY" ->
            LET t2 == _increment_loop_counter(tr)
            IN  IF t2.current_loop_count = 1 /\ t2.first_run_strategy = "immediate"
                THEN [trigger |-> t2, sleep |-> None]
                ELSE [trigger |-> t2, sleep |-> t2.to_seconds]

\* ------------------------------------------------------------- datetime
\* A datetime of a time zone whose UTC offset does not change: the day
\* (day 0 is a Monday) and the milliseconds since midnight. Durations are
\* in milliseconds.
MsPerSecond == 1000
MsPerDay == 86400 * MsPerSecond

datetime(day, hour, minute, second, millisecond) ==
    [day |-> day,
     ms |-> ((hour * 60 + minute) * 60 + second) * MsPerSecond + millisecond]

\* datetime.weekday(): Monday is 0
weekday(dt) == dt.day % 7

\* dt.replace(hour=, minute=, second=, microsecond=0), for hour in 0..23
replace(dt, hour, minute, second) ==
    [day |-> dt.day, ms |-> ((hour * 60 + minute) * 60 + second) * MsPerSecond]

\* dt + timedelta(days=n)
timedelta_days(dt, n) == [dt EXCEPT !.day = @ + n]

\* a < b, and a - b, for datetimes of the same zone
before(a, b) == a.day < b.day \/ (a.day = b.day /\ a.ms < b.ms)
minus(a, b) == (a.day - b.day) * MsPerDay + (a.ms - b.ms)

\* what a waiting-time computation gives: a number of seconds (held in
\* milliseconds), None, or a ValueError raised
Float(ms) == [outcome |-> "float", ms |-> ms]
NoneResult == [outcome |-> "None", ms |-> 0]
ValueError == [outcome |-> "ValueError", ms |-> 0]
Unasked == [outcome |-> "unasked", ms |-> 0]

\* ------------------------------------------------------------------- At
WEEK_TO_SECOND == 604800

At(at, hour, minute, second, max) ==
    [type_ |-> "AT", max_loop_count |-> max, current_loop_count |-> 0,
     at |-> at, hour |-> hour, minute |-> minute, second |-> second]

\* the target_weekday table of At._shift_to_week
target_weekday(at) ==
    CASE at = "every monday" -> 0
      [] at = "every tuesday" -> 1
      [] at = "every wednesday" -> 2
      [] at = "every thursday" -> 3
      [] at = "every friday" -> 4
      [] at = "every saturday" -> 5
      [] at = "every sunday" -> 6
      [] at = "every day" -> None

\* (variant) no "today still counts" case: the same weekday is a week away
_shift_to_week_NoTieBreak(tr, target_time, tz_aware_now) ==
    LET tw == target_weekday(tr.at)
        d0 == tw - weekday(tz_aware_now)
        days_ahead == IF d0 <= 0 THEN d0 + 7 ELSE d0
    IN  IF tw = None
        THEN IF before(target_time, tz_aware_now)
             THEN timedelta_days(target_time, 1)
             ELSE target_time
        ELSE timedelta_days(target_time, days_ahead)

\* (variant) days_ahead is not wrapped into the next week
_shift_to_week_NoWrap(tr, target_time, tz_aware_now) ==
    LET tw == target_weekday(tr.at)
        days_ahead == tw - weekday(tz_aware_now)
        error_margin == WEEK_TO_SECOND - 1
    IN  IF tw = None
        THEN IF before(target_time, tz_aware_now)
             THEN timedelta_days(target_time, 1)
             ELSE target_time
        ELSE IF /\ days_ahead = 0
                /\ minus(target_time, tz_aware_now) < error_margin * MsPerSecond
        THEN target_time
        ELSE timedelta_days(target_time, days_ahead)

\* (variant) "every day" never moves to tomorrow
_shift_to_week_NoDayShift(tr, target_time, tz_aware_now) ==
    LET tw == target_weekday(tr.at)
        d0 == tw - weekday(tz_aware_now)
        days_ahead == IF d0 <= 0 THEN d0 + 7 ELSE d0
        error_margin == WEEK_TO_SECOND - 1
    IN  IF tw = None
        THEN target_time
        ELSE IF /\ days_ahead = 7
                /\ minus(target_time, tz_aware_now) < error_margin * MsPerSecond
        THEN target_time
        ELSE timedelta_days(target_time, days_ahead)

\* At._shift_to_week
_shift_to_week(tr, target_time, tz_aware_now) ==
    LET tw == target_weekday(tr.at)
        d0 == tw - weekday(tz_aware_now)
        days_ahead == IF d0 <= 0 THEN d0 + 7 ELSE d0
        error_margin == WEEK_TO_SECOND - 1
    IN  IF tw = None
        THEN IF before(target_time, tz_aware_now)
             THEN timedelta_days(target_time, 1)
             ELSE target_time
        ELSE IF tr.at = "every day"
        THEN timedelta_days(target_time,
                            IF before(target_time, tz_aware_now) THEN 1 ELSE 0)
        ELSE IF /\ days_ahead = 7
                /\ minus(target_time, tz_aware_now) < error_margin * MsPerSecond
        THEN target_time
        ELSE timedelta_days(target_time, days_ahead)

\* At._get_next_ts; datetime.replace raises ValueError for an hour above 23
_get_next_ts(tr, n) ==
    IF tr.hour \notin 0..23 THEN ValueError
    ELSE LET target_time == replace(n, tr.hour, tr.minute, tr.second)
         IN  Float(minus(_shift_to_week(tr, target_time, n), n))

\* At.get_sleep_time
get_sleep_time(tr, n) == _get_next_ts(tr, n)

\* At.trigger_next at instant n: the trigger afterwards and what it sleeps
At_trigger_next(tr, n) ==
    LET t2 == _increment_loop_counter(tr)
    IN  [trigger |-> t2, sleep |-> get_sleep_time(t2, n)]

\* ------------------------------------------- a LoopController subclass
\* tests/test_triggers.py: a subclass that only defines trigger_next and
\* inherits LoopController.get_waiting_time_till_next_trigger
IterateFiveTime(max) ==
    [type_ |-> "foo", max_loop_count |-> max, current_loop_count |-> 0]

IterateFiveTime_trigger_next(tr) ==
    [trigger |-> _increment_loop_counter(tr), sleep |-> None]

\* ----------------------------------------------------------------- Cron
\* Cron with a daily expression "<minute> <hour> * * *"
Cron(minute, hour) ==
    [type_ |-> "CRON", cron |-> [minute |-> minute, hour |-> hour]]

\* croniter(self.cron, now).get_next(float): the first instant of the
\* schedule that is later than now (croniter never returns its start time)
croniter_get_next(tr, n) ==
    LET today == replace(n, tr.cron.hour, tr.cron.minute, 0)
    IN  IF before(n, today) THEN today ELSE timedelta_days(today, 1)

\* Cron.get_waiting_time_till_next_trigger
Cron_get_waiting_time_till_next_trigger(tr, n) ==
    Float(minus(croniter_get_next(tr, n), n))

\* Cron.trigger_next: sleeps for the waiting time, changes no field
Cron_trigger_next(tr, n) ==
    [trigger |-> tr, sleep |-> Cron_get_waiting_time_till_next_trigger(tr, n)]

\* ------------------------------------------------ calls on any trigger
\* await tr.get_waiting_time_till_next_trigger(), evaluated at instant n
waiting_time(tr, n) ==
    CASE tr.type_ = "AT" -> get_sleep_time(tr, n)
      [] tr.type_ = "CRON" -> Cron_get_waiting_time_till_next_trigger(tr, n)
      [] tr.type_ = "foo" -> Float(0)
      [] OTHER ->
            LET w == get_waiting_time_till_next_trigger(tr)
            IN  IF w = None THEN NoneResult ELSE Float(w * MsPerSecond)

\* the trigger after await tr.trigger_next() at instant n
advanced(tr, n) ==
    CASE tr.type_ = "AT" -> At_trigger_next(tr, n).trigger
      [] tr.type_ = "CRON" -> Cron_trigger_next(tr, n).trigger
      [] tr.type_ = "foo" -> IterateFiveTime_trigger_next(tr).trigger
      [] OTHER -> trigger_next(tr).trigger

\* ---------------------------------------------------------------- state
VARIABLES
    trigger,            \* task id -> its trigger object (Task.trigger)
    raises,             \* task ids whose callable (Task.func) raises when invoked
    limiter,            \* AioClock.limiter: None or the limiter's total tokens
    borrowed,           \* tokens of the limiter currently borrowed
    app_tasks,          \* AioClock._app_tasks: task ids, in registration order
    group_tasks,        \* Group._tasks of each Group made by the user
    groups,             \* AioClock._groups: references to group task lists
    serve_pc,           \* where serve() is: "init", "A", "B", "C", "done"
    serve_exc,          \* exception serve() carries through finally / ends with
    serve_must_cancel,  \* cancel() reached the serve() task after its gather resolved
    outer,              \* future of the gather serve() awaits
    gather_id,          \* number of gather calls made so far
    runs,               \* the coroutines handed to gather, in creation order
    cancelled_at,       \* <<>>, or <<phase, outer>> at the moment task.cancel() was called
    invoked,            \* task id -> callable invocations begun
    returned,           \* task id -> callable invocations that returned
    raised,             \* task id -> callable invocations that raised
    tg,                 \* a trigger object whose methods are called directly
    now,                \* the instant a waiting time was last computed for
    waiting,            \* what that waiting-time query gave
    advances,           \* trigger_next() calls made on tg
    built,              \* a trigger constructor call: class, arguments, outcome
    api,                \* the last call made through aioclock.api or a task handle
    called              \* task id -> callable invocations begun by such calls

vars ==
    <<trigger, raises, limiter, borrowed, app_tasks, group_tasks, groups,
      serve_pc, serve_exc, serve_must_cancel, outer, gather_id, runs,
      cancelled_at, invoked, returned, raised, tg, now, waiting, advances,
      built, api, called>>

TaskIds == DOMAIN trigger

\* ------------------------------------------------------- task lists
\* a reference held in AioClock._groups: 0 is the list object _app_tasks,
\* g >= 1 the list of user group g, FreshList a new empty list
AppList == 0
FreshList == -2

ListOf(ref) ==
    IF ref = AppList THEN app_tasks
    ELSE IF ref = FreshList THEN <<>>
    ELSE group_tasks[ref]

RECURSIVE flatten_chain(_)
flatten_chain(ls) ==
    IF ls = <<>> THEN <<>> ELSE Head(ls) \o flatten_chain(Tail(ls))

\* AioClock._tasks, for the group references gs
_tasks(gs) ==
    flatten_chain([i \in 1..Len(gs) |-> ListOf(gs[i])])

IsStartup(t) == trigger[t].type_ = "ON_START_UP"
IsShutdown(t) == trigger[t].type_ = "ON_SHUT_DOWN"

_get_shutdown_task(all) ==
    SelectSeq(all, LAMBDA t : trigger[t].type_ = "ON_SHUT_DOWN")

_get_startup_task(all) ==
    SelectSeq(all, LAMBDA t : trigger[t].type_ = "ON_START_UP")

\* (variant) a default exclude_type that names the startup kind only
_get_tasks_StartupOnly(all) ==
    SelectSeq(all, LAMBDA t : trigger[t].type_ \notin {"ON_START_UP"})

\* _get_tasks() with its default exclude_type
_get_tasks(all) ==
    SelectSeq(all, LAMBDA t : trigger[t].type_ \notin {"ON_START_UP", "ON_SHUT_DOWN"})

\* Group(tasks=self._app_tasks): `tasks or []` keeps the list object when
\* it is non-empty and makes a new list otherwise
Group(tasks_ref) ==
    IF ListOf(tasks_ref) # <<>> THEN tasks_ref ELSE FreshList

\* ---------------------------------------------------------------- gather
Finished == {"done", "failed", "cancelled"}

\* task.run() for each task of ts, wrapped in a Task by gather number gid
NewRuns(ts, ph, gid) ==
    [i \in 1..Len(ts) |->
        [kind |-> "run", task |-> ts[i], gid |-> gid, phase |-> ph,
         pc |-> "new", d |-> None, fires |-> 0, must_cancel |-> FALSE]]

\* self.limiter.acquire() for each of n tasks
NewAcquires(n, ph, gid) ==
    [i \in 1..n |->
        [kind |-> "acquire", task |-> 0, gid |-> gid, phase |-> ph,
         pc |-> "new", d |-> None, fires |-> 0, must_cancel |-> FALSE]]

\* the awaitables of Phase B (app.py 165-169)
SteadyAwaitables(ts, gid) ==
    IF limiter # None
    THEN NewAcquires(Len(ts), "B", gid) \o NewRuns(ts, "B", gid)
    ELSE NewRuns(ts, "B", gid)

Children(rs, gid) == {i \in 1..Len(rs) : rs[i].gid = gid}

\* (variant) a gather that resolves as soon as one child has completed
OuterAfter_FirstCompleted(rs, i) ==
    IF rs[i].gid # gather_id \/ outer # "pending" THEN outer
    ELSE IF rs[i].pc = "cancelled" THEN "cancelled"
    ELSE IF rs[i].pc = "failed" THEN "exception"
    ELSE IF rs[i].pc = "done" THEN "result"
    ELSE "pending"

\* (variant) gather with return_exceptions=True: a child's exception is a
\* result like any other
OuterAfter_ReturnExceptions(rs, i) ==
    IF rs[i].gid # gather_id \/ outer # "pending" THEN outer
    ELSE IF rs[i].pc = "cancelled" THEN "cancelled"
    ELSE IF \A j \in Children(rs, gather_id) : rs[j].pc \in Finished THEN "result"
    ELSE "pending"

\* gather's done callback with return_exceptions=False, run when child i
\* of rs has just finished: the state of the outer future afterwards
OuterAfter(rs, i) ==
    IF rs[i].gid # gather_id \/ outer # "pending" THEN outer
    ELSE IF rs[i].pc = "cancelled" THEN "cancelled"
    ELSE IF rs[i].pc = "failed" THEN "exception"
    ELSE IF \A j \in Children(rs, gather_id) : rs[j].pc \in Finished THEN "result"
    ELSE "pending"

\* ---------------------------------------------------------------- serve
\* serve() ends: it returns, or raises exc
Finish(exc) ==
    [pc |-> "done", exc |-> exc, new |-> <<>>]

\* the finally block (app.py 172-174); gather() of nothing is already done
EnterC(all, exc) ==
    LET ts == _get_shutdown_task(all)
    IN  IF ts = <<>> THEN Finish(exc)
        ELSE [pc |-> "C", exc |-> exc, new |-> NewRuns(ts, "C", gather_id + 1)]

\* (variant) serve() without its finally block
OnTryError_NoFinally(all, exc) ==
    Finish(exc)

\* (variant) cleanup in `except Exception:` instead of `finally:`: it is
\* skipped when CancelledError, a BaseException, passes through
OnTryError_ExceptException(all, exc) ==
    IF exc = "cancelled" THEN Finish(exc) ELSE EnterC(all, exc)

\* what serve() does when the gather of Phase A or B raised exc
OnTryError(all, exc) ==
    EnterC(all, exc)

\* (variant) the steady-state tasks are started but not awaited
EnterB_NoAwait(all) ==
    LET ts == _get_tasks(all)
        c == EnterC(all, "none")
    IN  [c EXCEPT !.new = SteadyAwaitables(ts, gather_id + 1) \o @]

\* app.py 165-171
EnterB(all) ==
    LET ts == _get_tasks(all)
    IN  IF ts = <<>> THEN EnterC(all, "none")
        ELSE [pc |-> "B", exc |-> "none", new |-> SteadyAwaitables(ts, gather_id + 1)]

\* (variant) the startup tasks are started but not awaited
EnterA_NoAwait(all) ==
    LET ts == _get_startup_task(all)
        b == EnterB(all)
    IN  IF b.new = <<>> /\ ts # <<>>
        THEN [pc |-> "A", exc |-> "none", new |-> NewRuns(ts, "A", gather_id + 1)]
        ELSE [b EXCEPT !.new = NewRuns(ts, "A", gather_id + 1) \o @]

\* app.py 163
EnterA(all) ==
    LET ts == _get_startup_task(all)
    IN  IF ts = <<>> THEN EnterB(all)
        ELSE [pc |-> "A", exc |-> "none", new |-> NewRuns(ts, "A", gather_id + 1)]

\* serve() moves on to nxt
ServeGoes(nxt) ==
    /\ serve_pc' = nxt.pc
    /\ serve_exc' = nxt.exc
    /\ runs' = runs \o nxt.new
    /\ gather_id' = IF nxt.new # <<>> THEN gather_id + 1 ELSE gather_id
    /\ outer' = IF nxt.new # <<>> THEN "pending" ELSE outer
    /\ serve_must_cancel' = FALSE

\* -------------------------------------------------------------- fire-loop
\* Task.run: the head of its loop, for run r whose trigger is now tr:
\* stop when the trigger is exhausted, otherwise suspend for the waiting time
LoopHead(r, tr) ==
    IF should_trigger(tr)
    THEN LET d == get_waiting_time_till_next_trigger(tr)
         IN  IF d = None THEN [r EXCEPT !.pc = "done", !.d = None]
             ELSE [r EXCEPT !.pc = "wait", !.d = d]
    ELSE [r EXCEPT !.pc = "done", !.d = None]

\* a child of gather that has not yet run as far as its first callable
\* invocation although nothing delays it: asyncio runs ready callbacks in
\* FIFO order, so such a child runs before the awaiting coroutine resumes
FirstStepPending(r) ==
    \/ r.pc = "new"
    \/ r.kind = "run" /\ r.pc = "wait" /\ r.d = 0 /\ r.fires = 0

\* no trigger constructor was called, no call was made through the api
NotBuilt == [cls |-> "none", kwargs |-> <<>>, outcome |-> "none"]
\* (at: where serve() was when the call was made)
NoCall ==
    [op |-> "none", id |-> 0, outcome |-> "none", result |-> <<>>, n |-> 0,
     at |-> "none"]

Config == <<raises, limiter, app_tasks, group_tasks, groups>>
ServeVars == <<serve_pc, serve_exc, serve_must_cancel, gather_id>>
History == <<invoked, returned, raised>>
Probe == <<tg, now, waiting, advances, built>>
Api == <<api, called>>

\* the first step of a task.run() coroutine
RunBegin(i) ==
    /\ i \in DOMAIN runs
    /\ runs[i].kind = "run" /\ runs[i].pc = "new" /\ ~runs[i].must_cancel
    /\ LET rs == [runs EXCEPT ![i] = LoopHead(runs[i], trigger[runs[i].task])]
       IN  /\ runs' = rs
           /\ outer' = OuterAfter(rs, i)
    /\ UNCHANGED <<trigger, borrowed, cancelled_at, Config, ServeVars, History, Probe, Api>>

\* the wait is over: the callable is invoked
RunInvoke(i) ==
    /\ i \in DOMAIN runs
    /\ runs[i].kind = "run" /\ runs[i].pc = "wait" /\ ~runs[i].must_cancel
    /\ runs[i].fires < MaxFires
    /\ runs' = [runs EXCEPT ![i].pc = "invoke", ![i].fires = @ + 1]
    /\ invoked' = [invoked EXCEPT ![runs[i].task] = @ + 1]
    /\ UNCHANGED <<trigger, borrowed, cancelled_at, outer, returned, raised,
                   Config, ServeVars, Probe, Api>>

\* the callable returns: the trigger is advanced and the loop goes round
CallableReturn(i) ==
    /\ i \in DOMAIN runs
    /\ runs[i].kind = "run" /\ runs[i].pc = "invoke" /\ ~runs[i].must_cancel
    /\ runs[i].task \notin raises
    /\ LET t  == runs[i].task
           tn == trigger_next(trigger[t])
           r2 == IF tn.sleep # None
                 THEN [runs[i] EXCEPT !.pc = "advance", !.d = tn.sleep]
                 ELSE LoopHead(runs[i], tn.trigger)
           rs == [runs EXCEPT ![i] = r2]
       IN  /\ trigger' = [trigger EXCEPT ![t] = tn.trigger]
           /\ returned' = [returned EXCEPT ![t] = @ + 1]
           /\ runs' = rs
           /\ outer' = OuterAfter(rs, i)
    /\ UNCHANGED <<borrowed, cancelled_at, invoked, raised, Config, ServeVars, Probe, Api>>

\* the callable raises: Task.run lets the exception propagate
CallableRaise(i) ==
    /\ i \in DOMAIN runs
    /\ runs[i].kind = "run" /\ runs[i].pc = "invoke" /\ ~runs[i].must_cancel
    /\ runs[i].task \in raises
    /\ LET rs == [runs EXCEPT ![i].pc = "failed"]
       IN  /\ runs' = rs
           /\ outer' = OuterAfter(rs, i)
    /\ raised' = [raised EXCEPT ![runs[i].task] = @ + 1]
    /\ UNCHANGED <<trigger, borrowed, cancelled_at, invoked, returned,
                   Config, ServeVars, Probe, Api>>

\* the sleep inside trigger_next is over
AdvanceWake(i) ==
    /\ i \in DOMAIN runs
    /\ runs[i].kind = "run" /\ runs[i].pc = "advance" /\ ~runs[i].must_cancel
    /\ LET rs == [runs EXCEPT ![i] = LoopHead(runs[i], trigger[runs[i].task])]
       IN  /\ runs' = rs
           /\ outer' = OuterAfter(rs, i)
    /\ UNCHANGED <<trigger, borrowed, cancelled_at, Config, ServeVars, History, Probe, Api>>

\* self.limiter.acquire(): borrow a token, or wait for one (none is ever
\* given back)
AcquireStep(i) ==
    /\ i \in DOMAIN runs
    /\ runs[i].kind = "acquire" /\ runs[i].pc = "new" /\ ~runs[i].must_cancel
    /\ LET ok == borrowed < limiter
           rs == [runs EXCEPT ![i].pc = IF ok THEN "done" ELSE "blocked"]
       IN  /\ borrowed' = IF ok THEN borrowed + 1 ELSE borrowed
           /\ runs' = rs
           /\ outer' = OuterAfter(rs, i)
    /\ UNCHANGED <<trigger, cancelled_at, Config, ServeVars, History, Probe, Api>>

\* CancelledError is thrown into a child at the point where it is suspended
DeliverCancel(i) ==
    /\ i \in DOMAIN runs
    /\ runs[i].must_cancel /\ runs[i].pc \notin Finished
    /\ LET rs == [runs EXCEPT ![i].pc = "cancelled", ![i].must_cancel = FALSE]
       IN  /\ runs' = rs
           /\ outer' = OuterAfter(rs, i)
    /\ UNCHANGED <<trigger, borrowed, cancelled_at, Config, ServeVars, History, Probe, Api>>

\* ---------------------------------------------------------------- serve
\* serve() up to its first suspension (app.py 160-163)
ServeStart ==
    /\ serve_pc = "init"
    /\ groups' = Append(groups, Group(AppList))
    /\ ServeGoes(EnterA(_tasks(groups')))
    /\ UNCHANGED <<trigger, raises, limiter, borrowed, app_tasks, group_tasks,
                   cancelled_at, History, Probe, Api>>

\* serve() resumes from the gather it awaits (app.py 163-174)
ServeResume ==
    /\ serve_pc \in {"A", "B", "C"}
    /\ outer # "pending"
    /\ \A j \in Children(runs, gather_id) : ~FirstStepPending(runs[j])
    /\ LET outcome == IF serve_must_cancel THEN "cancelled" ELSE outer
           exc == IF outcome = "cancelled" THEN "cancelled" ELSE "error"
           all == _tasks(groups)
       IN  ServeGoes(
             CASE serve_pc = "A" ->
                    IF outcome = "result" THEN EnterB(all) ELSE OnTryError(all, exc)
               [] serve_pc = "B" ->
                    IF outcome = "result" THEN EnterC(all, "none") ELSE OnTryError(all, exc)
               [] serve_pc = "C" ->
                    Finish(IF outcome = "result" THEN serve_exc ELSE exc))
    /\ UNCHANGED <<trigger, borrowed, cancelled_at, Config, History, Probe, Api>>

\* the embedding application cancels the task running serve()
\* (ext/fast.py lifespan): Task.cancel() cancels the pending gather, which
\* cancels its unfinished children
Cancel ==
    /\ serve_pc \in {"A", "B", "C"}
    /\ cancelled_at = <<>>
    /\ cancelled_at' = <<serve_pc, outer>>
    /\ IF outer = "pending"
       THEN /\ runs' = [i \in DOMAIN runs |->
                          IF runs[i].gid = gather_id /\ runs[i].pc \notin Finished
                          THEN [runs[i] EXCEPT !.must_cancel = TRUE]
                          ELSE runs[i]]
            /\ UNCHANGED serve_must_cancel
       ELSE /\ serve_must_cancel' = TRUE
            /\ UNCHANGED runs
    /\ UNCHANGED <<trigger, borrowed, outer, serve_pc, serve_exc, gather_id,
                   Config, History, Probe, Api>>

\* ----------------------------------------------------------------- Init
\* the triggers tasks are registered with
Catalogue ==
    <<OnStartUp, OnShutDown, Once, Every(MaxFires, "immediate", 1), Forever>>

\* After registration and before serve(): up to MaxTasks tasks; the startup
\* and shutdown tasks registered with app.task, the others with group.task
\* of one Group passed to include_group (as in examples/app.py); with or
\* without a limiter
Init ==
    /\ \E n \in 1..MaxTasks : \E c \in [1..n -> 1..Len(Catalogue)] :
          /\ \A i \in 1..n : \A j \in 1..n : i < j => c[i] <= c[j]
          /\ \A class \in {{"ON_START_UP"}, {"ON_SHUT_DOWN"}, {"ONCE", "EVERY", "FOREVER"}} :
                Cardinality({i \in 1..n : Catalogue[c[i]].type_ \in class}) <= MaxPerPhase
          /\ trigger = [i \in 1..n |-> Catalogue[c[i]]]
    /\ raises \in SUBSET TaskIds
    /\ limiter \in {None} \cup {k \in 1..MaxLimiter : Len(trigger) <= MaxLimitedTasks}
    /\ borrowed = 0
    /\ app_tasks = SelectSeq([i \in TaskIds |-> i],
                             LAMBDA t : IsStartup(t) \/ IsShutdown(t))
    /\ group_tasks = << SelectSeq([i \in TaskIds |-> i],
                                  LAMBDA t : ~IsStartup(t) /\ ~IsShutdown(t)) >>
    /\ groups = <<1>>
    /\ serve_pc = "init"
    /\ serve_exc = "none"
    /\ serve_must_cancel = FALSE
    /\ outer = "none"
    /\ gather_id = 0
    /\ runs = <<>>
    /\ cancelled_at = <<>>
    /\ invoked = [t \in TaskIds |-> 0]
    /\ returned = [t \in TaskIds |-> 0]
    /\ raised = [t \in TaskIds |-> 0]
    /\ tg = Once
    /\ now = datetime(0, 0, 0, 0, 0)
    /\ waiting = Unasked
    /\ advances = 0
    /\ built = NotBuilt
    /\ api = NoCall
    /\ called = [t \in TaskIds |-> 0]

Next ==
    \/ ServeStart
    \/ ServeResume
    \/ Cancel
    \/ \E i \in DOMAIN runs : RunBegin(i)
    \/ \E i \in DOMAIN runs : RunInvoke(i)
    \/ \E i \in DOMAIN runs : CallableReturn(i)
    \/ \E i \in DOMAIN runs : CallableRaise(i)
    \/ \E i \in DOMAIN runs : AdvanceWake(i)
    \/ \E i \in DOMAIN runs : AcquireStep(i)
    \/ \E i \in DOMAIN runs : DeliverCancel(i)

Spec == Init /\ [][Next]_vars

\* every coroutine that gather has scheduled
RunStep(i) ==
    \/ RunBegin(i) \/ RunInvoke(i) \/ CallableReturn(i) \/ CallableRaise(i)
    \/ AdvanceWake(i) \/ AcquireStep(i) \/ DeliverCancel(i)

\* The event loop runs every callback that is ready, timers expire and
\* callables end: each coroutine that can take a step eventually takes it.
\* Nothing obliges the embedding application to cancel.
FairSpec ==
    /\ Spec
    /\ WF_vars(ServeStart)
    /\ WF_vars(ServeResume)
    /\ \A i \in 1..(2 * MaxTasks) : WF_vars(RunStep(i))

TypeOK ==
    /\ serve_pc \in {"init", "A", "B", "C", "done"}
    /\ serve_exc \in {"none", "error", "cancelled"}
    /\ outer \in {"none", "pending", "result", "exception", "cancelled"}
    /\ \A i \in DOMAIN runs :
          runs[i].pc \in {"new", "wait", "invoke", "advance", "blocked"} \cup Finished

\* ------------------------------------------------------- classification
StartupTasks == {t \in TaskIds : IsStartup(t)}
ShutdownTasks == {t \in TaskIds : IsShutdown(t)}
SteadyTasks == TaskIds \ (StartupTasks \cup ShutdownTasks)

\* the task.run() coroutines of one phase
RunsOf(ph) == {i \in DOMAIN runs : runs[i].kind = "run" /\ runs[i].phase = ph}

CancelRequested == cancelled_at # <<>>
CancelledIn(ph) == cancelled_at # <<>> /\ cancelled_at[1] = ph

\* ------------------------------------------------------------------ C1
\* C1: in a serve() call in which a startup or steady-state callable
\* raised, no shutdown callable is invoked twice, and when serve() has
\* finished (not having been cancelled during Phase C) the callable of
\* every shutdown task has been invoked exactly once.
C1_ShutdownRunsAfterFailure ==
    (\E t \in TaskIds \ ShutdownTasks : raised[t] > 0) =>
        \A s \in ShutdownTasks :
            /\ invoked[s] <= 1
            /\ (serve_pc = "done" /\ ~CancelledIn("C")) => invoked[s] = 1

\* serve() has ended after a steady-state callable raised, and the
\* shutdown callable has run
C1_Witness ==
    /\ serve_pc = "done"
    /\ serve_exc = "error"
    /\ ~CancelRequested
    /\ \E t \in SteadyTasks : raised[t] = 1
    /\ \E s \in ShutdownTasks : invoked[s] = 1 /\ returned[s] = 1

\* ------------------------------------------------------------------ C2
\* C2: whenever a steady-state callable has been invoked, every startup
\* task's fire-loop has completed: its callable returned once and its
\* run() is done. (Nothing orders the startup tasks among themselves.)
C2_StartupBarrier ==
    (\E t \in SteadyTasks : invoked[t] > 0) =>
        /\ \A s \in StartupTasks : returned[s] = 1
        /\ \A i \in RunsOf("A") : runs[i].pc = "done"
        /\ \A s \in StartupTasks : \E i \in RunsOf("A") : runs[i].task = s

\* a steady-state callable is in flight after two startup tasks completed
C2_Witness ==
    /\ Cardinality(StartupTasks) >= 2
    /\ \A s \in StartupTasks : returned[s] = 1
    /\ \E i \in RunsOf("B") : runs[i].pc = "invoke"

\* ------------------------------------------------------------------ C3
\* C3: with no failing callable and no cancellation, a steady-state
\* invocation begins only after every startup invocation has finished, and
\* a shutdown invocation begins only after every steady-state fire-loop has
\* finished all its invocations.
C3_PhaseOrder ==
    (raises = {} /\ ~CancelRequested) =>
        /\ (\E t \in SteadyTasks : invoked[t] > 0) =>
              \A s \in StartupTasks : invoked[s] = 1 /\ returned[s] = 1
        /\ (\E s \in ShutdownTasks : invoked[s] > 0) =>
              /\ \A t \in StartupTasks \cup SteadyTasks :
                    invoked[t] >= 1 /\ returned[t] = invoked[t]
              /\ \A i \in RunsOf("A") \cup RunsOf("B") : runs[i].pc = "done"

\* A, B and C ran in order: startup, two steady-state tasks and shutdown
C3_Witness ==
    /\ raises = {} /\ ~CancelRequested
    /\ serve_pc = "done"
    /\ StartupTasks # {} /\ Cardinality(SteadyTasks) >= 2
    /\ \E s \in ShutdownTasks : returned[s] = 1

\* ------------------------------------------------------------------ C4
\* C4: once a startup callable has raised, no steady-state callable is
\* ever invoked and serve() never enters Phase B; when serve() has ended it
\* has handed every shutdown task to Phase C and it ends with an exception.
C4_StartupFailureSkipsB ==
    (\E s \in StartupTasks : raised[s] > 0) =>
        /\ \A t \in SteadyTasks : invoked[t] = 0
        /\ serve_pc # "B" /\ RunsOf("B") = {}
        /\ serve_pc = "done" =>
              /\ serve_exc # "none"
              /\ \A s \in ShutdownTasks : \E i \in RunsOf("C") : runs[i].task = s

\* serve() ended by raising after a startup failure, with a steady-state
\* task registered and the shutdown callable run
C4_Witness ==
    /\ serve_pc = "done" /\ serve_exc = "error"
    /\ \E s \in StartupTasks : raised[s] = 1
    /\ SteadyTasks # {}
    /\ \E s \in ShutdownTasks : returned[s] = 1

\* ------------------------------------------------------------------ C5
\* C5: while Phase C runs after a steady-state callable raised, no
\* steady-state task begins a new callable invocation.
C5_SiblingsStopped ==
    [][(serve_pc = "C" /\ \E t \in SteadyTasks : raised[t] > 0) =>
          \A t \in SteadyTasks : invoked'[t] = invoked[t]]_vars

\* ------------------------------------------------------------------ C6
\* C6: when serve() ends after a shutdown callable raised (and nothing was
\* cancelled), every shutdown task has been run to completion: its callable
\* was invoked once, that invocation is over and its run() has finished.
C6_AllShutdownCompleted ==
    (serve_pc = "done" /\ ~CancelRequested /\ \E s \in ShutdownTasks : raised[s] > 0) =>
        /\ \A s \in ShutdownTasks : invoked[s] = 1 /\ returned[s] + raised[s] = 1
        /\ \A i \in RunsOf("C") : runs[i].pc \in Finished

\* ------------------------------------------------------------------ C7
\* C7: after cancellation was requested while the gather of Phase B was
\* pending, no steady-state task begins a callable invocation, and when
\* serve() has ended every shutdown task's callable has been invoked
\* exactly once.
CancelledInActiveB == cancelled_at = <<"B", "pending">>

C7_CancelStopsSteadyAndRunsShutdown ==
    /\ [][CancelledInActiveB => \A t \in SteadyTasks : invoked'[t] = invoked[t]]_vars
    /\ [](CancelledInActiveB =>
            \A s \in ShutdownTasks :
                /\ invoked[s] <= 1
                /\ serve_pc = "done" => invoked[s] = 1)

\* serve() was cancelled in Phase B with a fire-loop not yet exhausted, and
\* has ended after the shutdown callable ran
C7_Witness ==
    /\ CancelledInActiveB
    /\ serve_pc = "done" /\ serve_exc = "cancelled"
    /\ \E i \in RunsOf("B") : runs[i].pc = "cancelled" /\ runs[i].fires >= 1
    /\ \E s \in ShutdownTasks : returned[s] = 1

\* ------------------------------------------------------------------ C8
\* C8: a steady-state callable invocation that is in flight is never ended
\* by the cancellation of serve(): it runs to completion.
C8_InFlightCompletes ==
    [][\A i \in RunsOf("B") : runs[i].pc = "invoke" => runs'[i].pc # "cancelled"]_vars

\* ------------------------------------------------------------------ C9
\* C9: the normal exit of a fire-loop stops no sibling: no steady-state
\* run is cancelled unless serve() was cancelled, a run that is done has
\* fired as often as its own trigger allows, and (no steady-state callable
\* having raised, no cancellation) serve() is past Phase B only when every
\* steady-state run is done.
C9_ExhaustionLeavesSiblings ==
    \A i \in RunsOf("B") :
        /\ (runs[i].must_cancel \/ runs[i].pc = "cancelled") => CancelledIn("B")
        /\ runs[i].pc = "done" =>
              /\ invoked[runs[i].task] = trigger[runs[i].task].max_loop_count
              /\ returned[runs[i].task] = trigger[runs[i].task].max_loop_count
        /\ (serve_pc \in {"C", "done"} /\ ~CancelRequested
              /\ \A t \in SteadyTasks : raised[t] = 0) => runs[i].pc = "done"

\* a Once fire-loop has exited while its Every sibling is in its second
\* invocation and serve() is still in Phase B
C9_Witness ==
    /\ serve_pc = "B" /\ ~CancelRequested
    /\ \E i \in RunsOf("B") : \E j \in RunsOf("B") :
          /\ trigger[runs[i].task].type_ = "ONCE" /\ runs[i].pc = "done"
          /\ trigger[runs[j].task].type_ = "EVERY"
          /\ runs[j].pc = "invoke" /\ runs[j].fires = 2

\* ----------------------------------------------------------------- C10
\* C10: with no limiter, every steady-state trigger loop-limited and no
\* callable raising, serve() eventually ends; unless it was cancelled it
\* returns, after every task fired as often as its trigger allows.
AllLoopLimited == \A t \in SteadyTasks : trigger[t].max_loop_count # None

C10_ServeTerminates ==
    (limiter = None /\ AllLoopLimited /\ raises = {}) =>
        <>(/\ serve_pc = "done"
           /\ ~CancelRequested =>
                 /\ serve_exc = "none"
                 /\ \A t \in TaskIds : returned[t] = trigger[t].max_loop_count)

\* serve() returned after a Once and an Every task fired to exhaustion and
\* the shutdown task ran
C10_Witness ==
    /\ limiter = None /\ AllLoopLimited /\ raises = {}
    /\ serve_pc = "done" /\ serve_exc = "none" /\ ~CancelRequested
    /\ \E t \in SteadyTasks : trigger[t].type_ = "EVERY" /\ returned[t] = MaxFires
    /\ \E t \in SteadyTasks : trigger[t].type_ = "ONCE" /\ returned[t] = 1
    /\ \E s \in ShutdownTasks : returned[s] = 1

\* ----------------------------------------------------------------- C11
\* the callable invocations in progress
InProgress == {i \in DOMAIN runs : runs[i].kind = "run" /\ runs[i].pc = "invoke"}

\* C11: while serve() of an AioClock created with limiter = k runs, at most
\* k callable invocations are in progress; stated for the invocations of
\* the steady-state tasks, the only ones serve() uses the limiter for.
C11_AtMostLimiterInProgress ==
    (limiter # None /\ serve_pc \in {"A", "B", "C"}) =>
        Cardinality(InProgress \cap RunsOf("B")) <= limiter

\* ----------------------------------------------------------------- C12
\* C12: with a limiter, the number of borrowed tokens equals the number of
\* callable invocations in progress (so it is 0 when none is in progress).
C12_BorrowedEqualsInProgress ==
    limiter # None => borrowed = Cardinality(InProgress)

\* ------------------------------------------------- triggers called directly
\* trigger_next() calls made on a trigger that is called directly
MaxAdvances == 3
\* largest max_loop_count given to such a trigger
MaxLoopCount == 2

LoopCounts == {None} \cup 1..MaxLoopCount

\* the At triggers constructed: selectors, and times of day around the
\* instants below (hour 24 passes the field's validation)
Selectors == {"every monday", "every wednesday", "every sunday", "every day"}
Hours == {0, 14, 24}
Minutes == {0, 1}
Seconds == {0, 59}

TriggerSet ==
    {Forever, Once, OnStartUp, OnShutDown}
    \cup {Every(m, st, secs) : m \in LoopCounts, st \in {"immediate", "wait"},
                              secs \in {1, 90}}
    \cup {At(a, h, mi, se, m) : a \in Selectors, h \in Hours, mi \in Minutes,
                               se \in Seconds, m \in LoopCounts}
    \cup {IterateFiveTime(m) : m \in LoopCounts}
    \cup {Cron(mi, h) : mi \in {0, 59}, h \in {0, 14}}

\* the instants a waiting time is computed at: every weekday, on and
\* between whole seconds
Instants ==
    {datetime(d, h, mi, 0, ms) : d \in 0..6, h \in {0, 14, 23},
                                 mi \in {0, 59}, ms \in {0, 500}}

\* no AioClock is serving
NoApp ==
    /\ trigger = <<>> /\ raises = {} /\ limiter = None /\ borrowed = 0
    /\ app_tasks = <<>> /\ group_tasks = <<>> /\ groups = <<>>
    /\ serve_pc = "init" /\ serve_exc = "none" /\ serve_must_cancel = FALSE
    /\ outer = "none" /\ gather_id = 0 /\ runs = <<>> /\ cancelled_at = <<>>
    /\ invoked = <<>> /\ returned = <<>> /\ raised = <<>>

\* a trigger right after construction
TriggerInit ==
    /\ NoApp
    /\ tg \in TriggerSet
    /\ now = datetime(0, 0, 0, 0, 0)
    /\ waiting = Unasked
    /\ advances = 0
    /\ built = NotBuilt
    /\ api = NoCall
    /\ called = <<>>

\* await tg.get_waiting_time_till_next_trigger() at some instant
Query ==
    /\ \E n \in Instants :
          /\ now' = n
          /\ waiting' = waiting_time(tg, n)
    /\ UNCHANGED <<tg, advances, built, trigger, borrowed, cancelled_at, outer,
                   runs, Config, ServeVars, History, Api>>

\* await tg.trigger_next(); the waiting time of the new state is not yet asked
Advance ==
    /\ advances < MaxAdvances
    /\ tg' = advanced(tg, now)
    /\ advances' = advances + 1
    /\ waiting' = Unasked
    /\ UNCHANGED <<now, built, trigger, borrowed, cancelled_at, outer, runs,
                   Config, ServeVars, History, Api>>

TriggerNext ==
    \/ Query
    \/ Advance

TriggerSpec == TriggerInit /\ [][TriggerNext]_vars

\* ----------------------------------------------------------------- C13
\* C13: whenever a waiting time has been asked of a trigger, the answer is
\* None exactly when should_trigger() is false (so a loop-limited trigger
\* of any variant answers None once it was advanced max_loop_count times).
C13_NoneIffExhausted ==
    waiting.outcome # "unasked" =>
        ((waiting.outcome = "None") <=> ~should_trigger(tg))

\* ----------------------------------------------------------------- C14
\* C14: the loop counter of a LoopController starts at 0 and every
\* trigger_next() raises it by exactly 1; should_trigger() is true exactly
\* while max_loop_count is None or fewer than max_loop_count advances
\* were made.
C14_LoopCounter ==
    tg.type_ \in LoopControlled =>
        /\ tg.current_loop_count = advances
        /\ should_trigger(tg) <=>
              (tg.max_loop_count = None \/ advances < tg.max_loop_count)

\* a trigger with max_loop_count = 2 was advanced three times and says no,
\* and an unlimited one was advanced three times and says yes
C14_Witness ==
    /\ advances = 3
    /\ \/ tg.type_ = "foo" /\ tg.max_loop_count = 2 /\ ~should_trigger(tg)
       \/ tg.type_ = "EVERY" /\ tg.max_loop_count = None /\ should_trigger(tg)

\* ------------------------------------------------------------- At claims
\* the target time of day of an At trigger, in milliseconds since midnight
TargetOfDay(tr) == ((tr.hour * 60 + tr.minute) * 60 + tr.second) * MsPerSecond

\* a waiting time was computed for an At trigger whose time of day exists
AtAsked ==
    /\ tg.type_ = "AT" /\ tg.hour \in 0..23
    /\ waiting.outcome # "unasked"

\* the same, with a specific weekday that is / is not the weekday of now
AtAskedOnItsDay ==
    AtAsked /\ tg.at # "every day" /\ weekday(now) = target_weekday(tg.at)

AtAskedOnAnotherDay ==
    AtAsked /\ tg.at # "every day" /\ weekday(now) # target_weekday(tg.at)

\* ----------------------------------------------------------------- C15
\* C15: a computed waiting time is never negative.
C15_NonNegativeWait ==
    waiting.outcome = "float" => waiting.ms >= 0

\* ----------------------------------------------------------------- C16
\* C16: At with a weekday, asked on that weekday when the target time of
\* day is at or after now: the waiting time is target - now, less than a day.
C16_TodayStillCounts ==
    (AtAskedOnItsDay /\ TargetOfDay(tg) >= now.ms) =>
        /\ waiting = Float(TargetOfDay(tg) - now.ms)
        /\ waiting.ms < MsPerDay

\* At(at="every sunday", hour=14, minute=1) asked on a Sunday at 14:00:00
\* gives 60 seconds
C16_Witness ==
    /\ AtAskedOnItsDay
    /\ tg.at = "every sunday" /\ TargetOfDay(tg) = datetime(0, 14, 1, 0, 0).ms
    /\ now = datetime(6, 14, 0, 0, 0)
    /\ waiting = Float(60 * MsPerSecond)

\* ----------------------------------------------------------------- C17
\* C17: At with a weekday, asked on that weekday after the target time of
\* day has passed: the waiting time is 7 days minus the time since the target.
C17_PassedTodayMeansNextWeek ==
    (AtAskedOnItsDay /\ TargetOfDay(tg) < now.ms) =>
        waiting = Float(7 * MsPerDay - (now.ms - TargetOfDay(tg)))

\* ----------------------------------------------------------------- C18
\* C18: At with a weekday, asked on another weekday: the waiting time is
\* d days plus (target time of day - time of day of now), with
\* d = (target weekday - weekday of now) mod 7 in 1..6, and the fire instant
\* falls on the target weekday.
C18_OtherWeekday ==
    AtAskedOnAnotherDay =>
        LET d == (target_weekday(tg.at) - weekday(now)) % 7
            fire == now.day * MsPerDay + now.ms + waiting.ms
        IN  /\ d \in 1..6
            /\ waiting = Float(d * MsPerDay + (TargetOfDay(tg) - now.ms))
            /\ (fire \div MsPerDay) % 7 = target_weekday(tg.at)

\* At(at="every monday", hour=0) asked on a Sunday at 23:59:00.5 gives
\* 59.5 seconds: one day ahead, minus the time of day of now
C18_Witness ==
    /\ AtAskedOnAnotherDay
    /\ tg.at = "every monday" /\ TargetOfDay(tg) = 0
    /\ now = datetime(6, 23, 59, 0, 500)
    /\ waiting = Float(59500)

\* ----------------------------------------------------------------- C19
\* C19: At "every day": the waiting time is target - now when the target
\* time of day is at or after now, one day more otherwise; it lies in
\* [0, 86400) seconds.
C19_EveryDay ==
    (AtAsked /\ tg.at = "every day") =>
        /\ waiting = Float(IF TargetOfDay(tg) >= now.ms
                           THEN TargetOfDay(tg) - now.ms
                           ELSE TargetOfDay(tg) - now.ms + MsPerDay)
        /\ waiting.ms >= 0 /\ waiting.ms < MsPerDay

\* At(at="every day", hour=14) asked at 14:00:00.5 gives 86399.5 seconds
C19_Witness ==
    /\ AtAsked /\ tg.at = "every day"
    /\ TargetOfDay(tg) = datetime(0, 14, 0, 0, 0).ms
    /\ now.ms = datetime(0, 14, 0, 0, 500).ms
    /\ waiting = Float(MsPerDay - 500)

\* ----------------------------------------------------------------- C20
\* C20: Every that is not exhausted: with first_run_strategy "immediate"
\* the waiting time is 0 before the first advance and to_seconds after;
\* with "wait" it is to_seconds on every evaluation, the first included.
C20_EveryWaitingTime ==
    (tg.type_ = "EVERY" /\ waiting.outcome # "unasked" /\ should_trigger(tg)) =>
        waiting = Float(IF tg.first_run_strategy = "immediate" /\ advances = 0
                        THEN 0
                        ELSE tg.to_seconds * MsPerSecond)

\* Every(seconds=90, first_run_strategy="immediate") asked after one advance
C20_Witness ==
    /\ tg.type_ = "EVERY" /\ tg.first_run_strategy = "immediate"
    /\ tg.to_seconds = 90 /\ advances = 1 /\ should_trigger(tg)
    /\ waiting = Float(90 * MsPerSecond)

\* ----------------------------------------------------------------- C21
\* C21: a Forever trigger is the same object state after any number of
\* trigger_next() calls; should_trigger() is true and every waiting time
\* asked of it is 0.
C21_ForeverNeverChanges ==
    tg.type_ = "FOREVER" =>
        /\ tg = Forever
        /\ should_trigger(tg)
        /\ waiting.outcome # "unasked" => waiting = Float(0)

\* a Forever trigger asked for its waiting time after three advances
C21_Witness ==
    /\ tg.type_ = "FOREVER" /\ advances = 3
    /\ waiting = Float(0) /\ should_trigger(tg)

\* ----------------------------------------------------------------- C22
\* C22: a Cron trigger asked at an instant of its own schedule answers 0.
C22_CronNowCounts ==
    (/\ tg.type_ = "CRON" /\ waiting.outcome # "unasked"
     /\ now = replace(now, tg.cron.hour, tg.cron.minute, 0)) =>
        waiting = Float(0)

\* ------------------------------------------------- trigger construction
\* pydantic: the declared fields of each trigger class; a name with a
\* leading underscore is a private attribute, not a field
BaseFields == {"type_", "expected_trigger_time"}
LoopFields == BaseFields \cup {"max_loop_count"}
UnitNames == {"seconds", "minutes", "hours", "days", "weeks"}

Fields(cls) ==
    CASE cls = "EVERY" -> LoopFields \cup {"first_run_strategy"} \cup UnitNames
      [] cls = "AT" -> LoopFields \cup {"second", "minute", "hour", "at", "tz"}
      [] cls = "CRON" -> BaseFields \cup {"cron", "tz"}
      [] cls = "FOREVER" -> BaseFields
      [] OTHER -> LoopFields

\* pydantic: model_fields_set holds the fields given to the constructor;
\* other keyword arguments are ignored (extra = "ignore" is the default)
model_fields_set(cls, kw) == DOMAIN kw \cap Fields(cls)

\* the value a field gets: the argument, or the default of the class
field(kw, name, default) == IF name \in DOMAIN kw THEN kw[name] ELSE default

\* zoneinfo.ZoneInfo(tz) and croniter(cron) succeed for these
ZoneNames == {"UTC", "Europe/Istanbul"}
CronExpressions == {"0 12 * * *"}

\* LoopController.validate_loop_controll raises
validate_loop_controll(cls, kw) ==
    "_current_loop_count" \in model_fields_set(cls, kw)

\* (variant) a validator that accepts minutes, hours, days, weeks only
\* together with seconds
Every_validate_time_units_NeedsSeconds(kw) ==
    field(kw, "seconds", None) = None

\* Every.validate_time_units raises
Every_validate_time_units(kw) ==
    /\ field(kw, "seconds", None) = None
    /\ field(kw, "minutes", None) = None
    /\ field(kw, "hours", None) = None
    /\ field(kw, "days", None) = None
    /\ field(kw, "weeks", None) = None

\* At.validate_time_units raises
At_validate_time_units(kw) ==
    \/ /\ field(kw, "second", 0) = None
       /\ field(kw, "minute", 0) = None
       /\ field(kw, "hour", 0) = None
    \/ kw["tz"] \notin ZoneNames

\* (variant) a validator that does not look at the time zone
validate_cron_expression_NoZone(kw) ==
    kw["cron"] \notin CronExpressions

\* Cron.validate_cron_expression raises
validate_cron_expression(kw) ==
    \/ kw["cron"] \notin CronExpressions
    \/ kw["tz"] \notin ZoneNames

\* Every.to_seconds
to_seconds(kw) ==
    LET seconds == field(kw, "seconds", None)
        weeks == field(kw, "weeks", None)
        days == field(kw, "days", None)
        hours == field(kw, "hours", None)
        minutes == field(kw, "minutes", None)
    IN  (IF seconds = None THEN 0 ELSE seconds)
        + (IF weeks # None THEN weeks * 604800 ELSE 0)
        + (IF days # None THEN days * 86400 ELSE 0)
        + (IF hours # None THEN hours * 3600 ELSE 0)
        + (IF minutes # None THEN minutes * 60 ELSE 0)

\* no trigger object
NoTrigger == [type_ |-> "none"]

\* the object a constructor call makes when no validator raises; the
\* private _current_loop_count starts at its default 0
new_object(cls, kw) ==
    CASE cls = "ONCE" -> Once
      [] cls = "ON_START_UP" -> OnStartUp
      [] cls = "ON_SHUT_DOWN" -> OnShutDown
      [] cls = "EVERY" ->
            Every(field(kw, "max_loop_count", None),
                  field(kw, "first_run_strategy", "wait"), to_seconds(kw))
      [] cls = "AT" ->
            At(field(kw, "at", "every day"), field(kw, "hour", 0),
               field(kw, "minute", 0), field(kw, "second", 0),
               field(kw, "max_loop_count", None))
      [] cls = "CRON" -> Cron(0, 12)

\* cls(**kw): the validators of the class run after the fields are set
construct(cls, kw) ==
    LET fails ==
          \/ cls \in LoopControlled /\ validate_loop_controll(cls, kw)
          \/ cls = "EVERY" /\ Every_validate_time_units(kw)
          \/ cls = "AT" /\ At_validate_time_units(kw)
          \/ cls = "CRON" /\ validate_cron_expression(kw)
    IN  IF fails THEN [outcome |-> "ValueError", obj |-> NoTrigger]
        ELSE [outcome |-> "ok", obj |-> new_object(cls, kw)]

\* the value given for each keyword argument of the calls below
ArgValue(name, zone, expr) ==
    CASE name = "_current_loop_count" -> 5
      [] name = "second" -> 59
      [] name = "minute" -> 1
      [] name = "hour" -> 14
      [] name = "tz" -> zone
      [] name = "cron" -> expr
      [] OTHER -> 1

Kwargs(names, zone, expr) == [n \in names |-> ArgValue(n, zone, expr)]

\* with and without a value for the private loop counter
Counter == {{}, {"_current_loop_count"}}

\* the constructor calls made: each class, with every choice of time
\* units, a zone and an expression that resolve or not
ConstructorCalls ==
    {[cls |-> c, kwargs |-> Kwargs(p, "UTC", "0 12 * * *")] :
        c \in {"ONCE", "ON_START_UP", "ON_SHUT_DOWN"}, p \in Counter}
    \cup {[cls |-> "EVERY", kwargs |-> Kwargs(u \cup p, "UTC", "0 12 * * *")] :
            u \in SUBSET UnitNames, p \in Counter}
    \cup {[cls |-> "AT", kwargs |-> Kwargs(u \cup {"tz"} \cup p, z, "0 12 * * *")] :
            u \in SUBSET {"second", "minute", "hour"},
            z \in {"UTC", "Mars/Olympus"}, p \in Counter}
    \cup {[cls |-> "CRON", kwargs |-> Kwargs({"cron", "tz"}, z, e)] :
            z \in {"UTC", "Mars/Olympus"},
            e \in {"0 12 * * *", "invalid cron expression"}}

\* a constructor call about to be made
ConstructInit ==
    /\ NoApp
    /\ tg = NoTrigger
    /\ now = datetime(0, 0, 0, 0, 0)
    /\ waiting = Unasked
    /\ advances = 0
    /\ \E call \in ConstructorCalls :
          built = [cls |-> call.cls, kwargs |-> call.kwargs, outcome |-> "pending"]
    /\ api = NoCall
    /\ called = <<>>

\* the call is made: a trigger object, or an error
Construct ==
    /\ built.outcome = "pending"
    /\ LET r == construct(built.cls, built.kwargs)
       IN  /\ built' = [built EXCEPT !.outcome = r.outcome]
           /\ tg' = r.obj
    /\ UNCHANGED <<now, waiting, advances, trigger, borrowed, cancelled_at,
                   outer, runs, Config, ServeVars, History, Api>>

ConstructNext == Construct

ConstructSpec == ConstructInit /\ [][ConstructNext]_vars

\* the constructor call was made, with these keyword arguments among others
Constructed(cls) == built.cls = cls /\ built.outcome \in {"ok", "ValueError"}
Supplied(names) == names \cap DOMAIN built.kwargs

\* ----------------------------------------------------------------- C23
\* C23: a constructor call of a LoopController class that is given a value
\* for _current_loop_count ends in an error and makes no object.
C23_PrivateCounterRejected ==
    (/\ built.cls \in LoopControlled
     /\ built.outcome \in {"ok", "ValueError"}
     /\ Supplied({"_current_loop_count"}) # {}) =>
        built.outcome = "ValueError" /\ tg = NoTrigger

\* ----------------------------------------------------------------- C24
\* C24: constructing an At without second, minute and hour ends in an error.
C24_AtNeedsTimeUnit ==
    (Constructed("AT") /\ Supplied({"second", "minute", "hour"}) = {}) =>
        built.outcome = "ValueError"

\* ----------------------------------------------------------------- C25
\* C25: constructing an Every ends in an error exactly when none of
\* seconds, minutes, hours, days, weeks is given.
C25_EveryNeedsTimeUnit ==
    Constructed("EVERY") =>
        (built.outcome = "ValueError" <=> Supplied(UnitNames) = {})

\* Every() was refused
C25_Witness ==
    /\ Constructed("EVERY")
    /\ DOMAIN built.kwargs = {}
    /\ built.outcome = "ValueError" /\ tg = NoTrigger

\* ----------------------------------------------------------------- C26
\* C26: constructing a Cron with an expression that does not parse or a
\* zone that does not resolve raises ValueError and makes no object.
C26_CronValidated ==
    (/\ Constructed("CRON")
     /\ \/ built.kwargs["cron"] \notin CronExpressions
        \/ built.kwargs["tz"] \notin ZoneNames) =>
        built.outcome = "ValueError" /\ tg = NoTrigger

\* Cron(cron="0 12 * * *", tz="Mars/Olympus") was refused
C26_Witness ==
    /\ Constructed("CRON")
    /\ built.kwargs["cron"] \in CronExpressions
    /\ built.kwargs["tz"] \notin ZoneNames
    /\ built.outcome = "ValueError" /\ tg = NoTrigger

\* ------------------------------------------------ registration and api
\* tasks registered in one application
MaxRegistered == 2
\* include_group calls made by the user
MaxIncludes == 2
\* calls made through aioclock.api or a task handle
MaxApiCalls == 1

\* _get_tasks(exclude_type=...)
_get_tasks_excluding(all, exclude_type) ==
    SelectSeq(all, LAMBDA t : trigger[t].type_ \notin exclude_type)

\* get_metadata_of_all_tasks(app): the ids of the entries it returns
get_metadata_of_all_tasks(gs) ==
    _get_tasks_excluding(_tasks(gs), {})

\* (variant) a lookup that settles for the first task of the list
find_task_OrFirst(all, task_id) ==
    IF \E k \in 1..Len(all) : all[k] = task_id THEN task_id
    ELSE IF all # <<>> THEN all[1] ELSE None

\* next((task for task in app._tasks if task.id == task_id), None):
\* the task found, or None
find_task(all, task_id) ==
    IF \E k \in 1..Len(all) : all[k] = task_id THEN task_id ELSE None

\* run_specific_task(task_id, app): the task whose callable is run, or None
\* when TaskIdNotFound is raised
run_specific_task(all, task_id) ==
    find_task(all, task_id)

\* (variant) a registration that puts the new Task first
append_task_First(ts, id) ==
    <<id>> \o ts

\* self._tasks.append(Task(...)) of Group.task and AioClock.task
append_task(ts, id) ==
    Append(ts, id)

\* the tasks registered on the AioClock or on a group that is included
Registered ==
    {app_tasks[k] : k \in 1..Len(app_tasks)}
    \cup UNION {{group_tasks[groups[j]][k] : k \in 1..Len(group_tasks[groups[j]])} :
                  j \in {j \in 1..Len(groups) : groups[j] >= 1}}

\* how often task t occurs in the list ts
Occurrences(ts, t) == Cardinality({k \in 1..Len(ts) : ts[k] = t})

\* the triggers tasks are registered with
ApiCatalogue == {OnStartUp, OnShutDown, Once}

\* AioClock() and one Group(): nothing registered, nothing included
ApiInit ==
    /\ trigger = <<>> /\ raises = {} /\ limiter = None /\ borrowed = 0
    /\ app_tasks = <<>> /\ group_tasks = << <<>> >> /\ groups = <<>>
    /\ serve_pc = "init" /\ serve_exc = "none" /\ serve_must_cancel = FALSE
    /\ outer = "none" /\ gather_id = 0 /\ runs = <<>> /\ cancelled_at = <<>>
    /\ invoked = <<>> /\ returned = <<>> /\ raised = <<>>
    /\ tg = NoTrigger /\ now = datetime(0, 0, 0, 0, 0) /\ waiting = Unasked
    /\ advances = 0 /\ built = NotBuilt
    /\ api = NoCall /\ called = <<>>

\* a new Task object with trigger tr; fails tells whether its callable raises
NewTask(tr, fails) ==
    /\ Len(trigger) < MaxRegistered
    /\ trigger' = Append(trigger, tr)
    /\ raises' = IF fails THEN raises \cup {Len(trigger) + 1} ELSE raises
    /\ invoked' = Append(invoked, 0)
    /\ returned' = Append(returned, 0)
    /\ raised' = Append(raised, 0)
    /\ called' = Append(called, 0)

\* @app.task(trigger=tr)
AppTask ==
    /\ \E tr \in ApiCatalogue : \E fails \in BOOLEAN : NewTask(tr, fails)
    /\ app_tasks' = append_task(app_tasks, Len(trigger) + 1)
    /\ api' = [api EXCEPT !.op = "app.task", !.id = Len(trigger) + 1,
                          !.outcome = "handle", !.result = <<>>,
                          !.at = serve_pc]
    /\ UNCHANGED <<limiter, borrowed, group_tasks, groups, cancelled_at, outer,
                   runs, ServeVars, Probe>>

\* @group.task(trigger=tr)
GroupTask ==
    /\ \E tr \in ApiCatalogue : \E fails \in BOOLEAN : NewTask(tr, fails)
    /\ \E g \in DOMAIN group_tasks :
          group_tasks' = [group_tasks EXCEPT
                            ![g] = append_task(@, Len(trigger) + 1)]
    /\ api' = [api EXCEPT !.op = "group.task", !.id = Len(trigger) + 1,
                          !.outcome = "handle", !.result = <<>>,
                          !.at = serve_pc]
    /\ UNCHANGED <<limiter, borrowed, app_tasks, groups, cancelled_at, outer,
                   runs, ServeVars, Probe>>

\* app.include_group(group)
IncludeGroup ==
    /\ Len(groups) < MaxIncludes /\ serve_pc = "init"
    /\ \E g \in DOMAIN group_tasks : groups' = Append(groups, g)
    /\ UNCHANGED <<trigger, raises, limiter, borrowed, app_tasks, group_tasks,
                   cancelled_at, outer, runs, ServeVars, History, Probe, Api>>

\* what calling task t's function gives
Outcome(t) == IF t \in raises THEN "raised" ELSE "returned"

\* the handle a registration returned is called: the function runs
CallHandle ==
    /\ api.n < MaxApiCalls
    /\ \E t \in TaskIds :
          /\ called' = [called EXCEPT ![t] = @ + 1]
          /\ api' = [op |-> "handle", id |-> t, outcome |-> Outcome(t),
                     result |-> <<>>, n |-> api.n + 1, at |-> serve_pc]
    /\ UNCHANGED <<trigger, borrowed, cancelled_at, outer, runs, Config,
                   ServeVars, History, Probe>>

\* await run_specific_task(task_id, app)
RunSpecificTask ==
    /\ api.n < MaxApiCalls
    /\ \E task_id \in 1..(MaxRegistered + 1) :
          LET t == run_specific_task(_tasks(groups), task_id)
          IN  /\ called' = IF t = None THEN called
                           ELSE [called EXCEPT ![t] = @ + 1]
              /\ api' = [op |-> "run_specific_task", id |-> task_id,
                         outcome |-> IF t = None THEN "TaskIdNotFound"
                                     ELSE Outcome(t),
                         result |-> <<>>, n |-> api.n + 1, at |-> serve_pc]
    /\ UNCHANGED <<trigger, borrowed, cancelled_at, outer, runs, Config,
                   ServeVars, History, Probe>>

\* await get_metadata_of_all_tasks(app)
GetMetadata ==
    /\ api.n < MaxApiCalls
    /\ api' = [op |-> "get_metadata_of_all_tasks", id |-> 0,
               outcome |-> "returned",
               result |-> get_metadata_of_all_tasks(groups), n |-> api.n + 1,
               at |-> serve_pc]
    /\ UNCHANGED <<trigger, borrowed, cancelled_at, outer, runs, called,
                   Config, ServeVars, History, Probe>>

\* registration, serve() and its fire-loops, and the calls from outside
ApiNext ==
    \/ AppTask
    \/ GroupTask
    \/ IncludeGroup
    \/ CallHandle
    \/ RunSpecificTask
    \/ GetMetadata
    \/ ServeStart
    \/ ServeResume
    \/ \E i \in DOMAIN runs : RunBegin(i)
    \/ \E i \in DOMAIN runs : RunInvoke(i)
    \/ \E i \in DOMAIN runs : CallableReturn(i)
    \/ \E i \in DOMAIN runs : CallableRaise(i)

ApiSpec == ApiInit /\ [][ApiNext]_vars

ApiTypeOK == api.n \in 0..MaxApiCalls


\* the step is a call of op made from outside
ApiStep(op) == api'.op = op /\ api'.n = api.n + 1

\* the step is a registration through op
RegistrationStep(op) == api'.op = op /\ Len(trigger') = Len(trigger) + 1

\* C27: get_metadata_of_all_tasks(app) returns one entry for every
\* registered task, those of included groups and those registered directly
\* on the AioClock, of every trigger kind, at any time after the
\* registration, before serve() included.
C27_MetadataListsEveryTask ==
    [][ApiStep("get_metadata_of_all_tasks")
         => \A t \in Registered : Occurrences(api'.result, t) = 1]_vars

\* C28: run_specific_task with an id of no registered task raises
\* TaskIdNotFound, invokes no callable and leaves the task lists and the
\* triggers as they were.
C28_UnknownIdRaises ==
    [][ApiStep("run_specific_task") /\ api'.id \notin Registered
         => /\ api'.outcome = "TaskIdNotFound"
            /\ UNCHANGED <<called, invoked, trigger, app_tasks, group_tasks,
                           groups>>]_vars

\* an id nobody registered was asked for while tasks are registered and
\* serve() is under way
C28_Witness ==
    /\ api.op = "run_specific_task" /\ api.outcome = "TaskIdNotFound"
    /\ Registered # {} /\ api.id \notin Registered
    /\ _tasks(groups) # <<>> /\ serve_pc # "init"
    /\ \A t \in TaskIds : called[t] = 0

\* C29: run_specific_task with the id of a registered task invokes that
\* task's callable exactly once, at once, whatever should_trigger() says,
\* and leaves the trigger's loop counter as it was.
C29_KnownIdRunsOnce ==
    [][ApiStep("run_specific_task") /\ api'.id \in Registered
         => /\ api'.outcome \in {"returned", "raised"}
            /\ called' = [called EXCEPT ![api'.id] = @ + 1]
            /\ UNCHANGED <<trigger, invoked>>]_vars

\* C30: Group.task(trigger=...) appends exactly one Task at the end of the
\* group's list, leaves the earlier entries and their order alone and
\* returns a handle; calling the handle runs the original callable and
\* changes neither a task list nor a loop counter.
C30_GroupTaskAppendsOne ==
    [][/\ RegistrationStep("group.task")
          => /\ \E g \in DOMAIN group_tasks :
                   /\ group_tasks'[g] = Append(group_tasks[g], api'.id)
                   /\ \A h \in DOMAIN group_tasks \ {g} :
                         group_tasks'[h] = group_tasks[h]
             /\ api'.id \notin TaskIds /\ api'.outcome = "handle"
             /\ UNCHANGED <<app_tasks, groups>>
       /\ ApiStep("handle")
          => /\ called' = [called EXCEPT ![api'.id] = @ + 1]
             /\ UNCHANGED <<app_tasks, group_tasks, groups, trigger>>]_vars

\* the group's second registration came after its first, and the handle
\* of one of the two was called
C30_Witness ==
    /\ group_tasks[1] = <<1, 2>>
    /\ api.op = "handle" /\ api.id \in {1, 2} /\ called[api.id] = 1


\* ----------------------------------------------------------------- C31
\* C31: with limiter = k and more than k steady-state tasks, all
\* loop-limited and none raising, serve() ends Phase B once every fire-loop
\* is exhausted, runs Phase C and terminates: it does not block for ever
\* on the limiter.
C31_LimiterDoesNotBlockServe ==
    (/\ limiter # None /\ Cardinality(SteadyTasks) > limiter
     /\ AllLoopLimited /\ raises = {})
        => <>(serve_pc = "done")


\* ----------------------------------------------------------------- C32
\* the task.run() coroutines of task t that have not ended
FireLoops(t) ==
    {i \in DOMAIN runs : /\ runs[i].kind = "run" /\ runs[i].task = t
                         /\ runs[i].pc \notin Finished}

\* C32: whatever was registered and included before serve(), the same
\* Group more than once included, each task has at most one fire-loop
\* running at a time and the callable of a Once task is invoked at most
\* once in a serve() call.
C32_OneFireLoopPerTask ==
    \A t \in TaskIds :
        /\ Cardinality(FireLoops(t)) <= 1
        /\ trigger[t].type_ = "ONCE" => invoked[t] <= 1


\* ----------------------------------------------------------------- C33
\* C33: the tasks run in Phases A, B and C of a serve() call are those
\* registered when the call began: a task registered afterwards, on the
\* AioClock or on an included Group, is run in no phase of that call.
C33_LateTasksNotRun ==
    (api.op \in {"app.task", "group.task"} /\ api.at # "init")
        => \A i \in DOMAIN runs : runs[i].task # api.id


\* ----------------------------------------------------------------- C34
\* the tasks a list holds
TasksIn(ts) == {ts[k] : k \in DOMAIN ts}

\* C34: every task of the flattened list is in exactly one of the three
\* lists serve() works with: the startup list iff its trigger kind is
\* ON_START_UP, the shutdown list iff it is ON_SHUT_DOWN, the steady-state
\* list otherwise; the three are pairwise disjoint and cover the list.
C34_ThreeClasses ==
    LET all == _tasks(groups)
        su  == _get_startup_task(all)
        sd  == _get_shutdown_task(all)
        st  == _get_tasks(all)
    IN  /\ \A t \in TasksIn(all) :
              /\ t \in TasksIn(su) <=> trigger[t].type_ = "ON_START_UP"
              /\ t \in TasksIn(sd) <=> trigger[t].type_ = "ON_SHUT_DOWN"
              /\ t \in TasksIn(st) <=>
                    trigger[t].type_ \notin {"ON_START_UP", "ON_SHUT_DOWN"}
        /\ TasksIn(su) \cap TasksIn(sd) = {}
        /\ TasksIn(su) \cap TasksIn(st) = {}
        /\ TasksIn(sd) \cap TasksIn(st) = {}
        /\ TasksIn(su) \cup TasksIn(sd) \cup TasksIn(st) = TasksIn(all)
        /\ Len(su) + Len(sd) + Len(st) = Len(all)

\* serve() is in its steady phase with tasks of all three classes in the
\* list, the steady ones of two different kinds
C34_Witness ==
    /\ serve_pc = "B"
    /\ _get_startup_task(_tasks(groups)) # <<>>
    /\ _get_shutdown_task(_tasks(groups)) # <<>>
    /\ {trigger[t].type_ : t \in TasksIn(_get_tasks(_tasks(groups)))}
          = {"EVERY", "FOREVER"}


\* ----------------------------------------------------------------- C35
\* C35: the fire-loop of a task whose trigger has max_loop_count = N and
\* whose callable never raises, when nothing is cancelled, invokes the
\* callable exactly N times, advances the trigger once after each
\* invocation and then ends normally.
C35_FireLoopRunsNTimes ==
    \A i \in DOMAIN runs :
        LET r == runs[i]
            t == r.task
        IN  (/\ r.kind = "run" /\ t \notin raises /\ ~CancelRequested
             /\ trigger[t].max_loop_count # None)
            => /\ r.fires <= trigger[t].max_loop_count
               /\ invoked[t] = r.fires
               /\ trigger[t].current_loop_count = returned[t]
               /\ r.pc = "wait" => r.fires < trigger[t].max_loop_count
               /\ r.pc \notin {"failed", "cancelled"}
               /\ r.pc = "done" =>
                     /\ r.fires = trigger[t].max_loop_count
                     /\ returned[t] = trigger[t].max_loop_count

\* the fire-loop of an Every task with max_loop_count = MaxFires ended
\* after MaxFires invocations, that of a Once task after one
C35_Witness ==
    /\ ~CancelRequested
    /\ \E i \in DOMAIN runs :
          /\ runs[i].kind = "run" /\ runs[i].pc = "done"
          /\ runs[i].task \notin raises
          /\ trigger[runs[i].task].type_ = "EVERY"
          /\ trigger[runs[i].task].max_loop_count = MaxFires
          /\ runs[i].fires = MaxFires
    /\ \E i \in DOMAIN runs :
          /\ runs[i].kind = "run" /\ runs[i].pc = "done"
          /\ runs[i].task \notin raises
          /\ trigger[runs[i].task].type_ = "ONCE"
          /\ runs[i].fires = 1


\* ----------------------------------------------------------------- C36
\* C36: advancing a trigger after a fire only updates its counter and adds
\* no delay: a fire-loop is never suspended for a positive time inside the
\* advance step, so its only wait in a cycle is the waiting time before
\* the invocation.
C36_AdvanceAddsNoDelay ==
    \A i \in DOMAIN runs :
        (runs[i].kind = "run" /\ runs[i].pc = "advance") => runs[i].d = 0


\* ----------------------------------------------------------------- C37
\* C37: for every At trigger that construction accepts (hour 0..24 among
\* them) and every instant, computing the waiting time gives a duration
\* and never fails.
C37_AtWaitNeverFails ==
    (tg.type_ = "AT" /\ waiting.outcome # "unasked")
        => waiting.outcome = "float"

====
